---- MODULE Spec2Model ----
(***************************************************************************)
(* Model of the sequential-logic stack of nandland: the D, SR and JK       *)
(* flip-flops of flipflop.rs and the ripple counter of counter.rs.         *)
(* The gate and latch layers (crate::gate, crate::latch) are modelled      *)
(* from their documented contract.                                         *)
(***************************************************************************)
EXTENDS Integers, Sequences, FiniteSets, TLC

\* ------------------------------------------------------------------------
\* Bounds
\* ------------------------------------------------------------------------

\* Largest counter width N explored.
MaxN == 9

\* Largest number of complete clock pulses counted after new() or clear().
MaxPulses == 2 ^ MaxN + 3

\* ------------------------------------------------------------------------
\* Gate library (crate::gate): pure boolean functions
\* ------------------------------------------------------------------------

not(a) == ~a

and(xs) == \A i \in DOMAIN xs : xs[i]

\* ------------------------------------------------------------------------
\* Latch layer (crate::latch).  A latch holds its two outputs q and qn.
\* ------------------------------------------------------------------------

DLatchNew == [q |-> FALSE, qn |-> TRUE]

DLatchSet(l, enable, data) ==
    IF enable THEN [q |-> data, qn |-> ~data] ELSE l

DLatchClear(l) == [q |-> FALSE, qn |-> TRUE]

DLatchQ(l) == l.q

DLatchQn(l) == l.qn

GatedSRLatchNew == [q |-> FALSE, qn |-> TRUE]

\* The set of outputs the latch may settle into.  With set and reset both
\* applied while enabled the result is unspecified: any pair of outputs.
GatedSRLatchSet(l, s, enable, r) ==
    IF ~enable THEN {l}
    ELSE IF s /\ r THEN [q : BOOLEAN, qn : BOOLEAN]
    ELSE IF s THEN {[q |-> TRUE, qn |-> FALSE]}
    ELSE IF r THEN {[q |-> FALSE, qn |-> TRUE]}
    ELSE {l}

GatedSRLatchQ(l) == l.q

GatedSRLatchQn(l) == l.qn

\* ------------------------------------------------------------------------
\* DFlipflop (flipflop.rs)
\* ------------------------------------------------------------------------

DFlipflopNew == [master |-> DLatchNew, slave |-> DLatchNew]

\* Plausible slip: the master enabled by clk itself, so that both latches
\* are transparent while the clock is high.
DFlipflopUpdateTransparent(ff, clk, d) ==
    LET m == DLatchSet(ff.master, clk, d)
    IN  [master |-> m, slave |-> DLatchSet(ff.slave, clk, DLatchQ(m))]

\* Plausible slip: the slave fed from d instead of the master's output.
DFlipflopUpdateBypass(ff, clk, d) ==
    LET m == DLatchSet(ff.master, not(clk), d)
    IN  [master |-> m, slave |-> DLatchSet(ff.slave, clk, d)]

DFlipflopUpdate(ff, clk, d) ==
    LET m == DLatchSet(ff.master, not(clk), d)
    IN  [master |-> m, slave |-> DLatchSet(ff.slave, clk, DLatchQ(m))]

\* Plausible slip: clear resets the slave and leaves the master latch.
DFlipflopClearSlaveOnly(ff) ==
    [master |-> ff.master, slave |-> DLatchClear(ff.slave)]

DFlipflopClear(ff) ==
    [master |-> DLatchClear(ff.master), slave |-> DLatchClear(ff.slave)]

DFlipflopQ(ff) == DLatchQ(ff.slave)

\* Plausible slip: the complemented output read from the master latch.
DFlipflopQnMaster(ff) == DLatchQn(ff.master)

DFlipflopQn(ff) == DLatchQn(ff.slave)

\* ------------------------------------------------------------------------
\* SRFlipflop (flipflop.rs)
\* ------------------------------------------------------------------------

SRFlipflopNew == [master |-> GatedSRLatchNew, slave |-> GatedSRLatchNew]

\* Plausible slip: the slave's set and reset inputs swapped.
SRFlipflopUpdateSwapped(ff, clk, s, r) ==
    UNION { { [master |-> m, slave |-> sl] :
                sl \in GatedSRLatchSet(ff.slave, GatedSRLatchQn(m), clk,
                                       GatedSRLatchQ(m)) } :
            m \in GatedSRLatchSet(ff.master, s, not(clk), r) }

\* Plausible slip: the master enabled by clk itself, so that both latches
\* are open while the clock is high.
SRFlipflopUpdateTransparent(ff, clk, s, r) ==
    UNION { { [master |-> m, slave |-> sl] :
                sl \in GatedSRLatchSet(ff.slave, GatedSRLatchQ(m), clk,
                                       GatedSRLatchQn(m)) } :
            m \in GatedSRLatchSet(ff.master, s, clk, r) }

\* The set of states the flip-flop may be in after update(clk, s, r).
SRFlipflopUpdate(ff, clk, s, r) ==
    UNION { { [master |-> m, slave |-> sl] :
                sl \in GatedSRLatchSet(ff.slave, GatedSRLatchQ(m), clk,
                                       GatedSRLatchQn(m)) } :
            m \in GatedSRLatchSet(ff.master, s, not(clk), r) }

SRFlipflopQ(ff) == GatedSRLatchQ(ff.slave)

SRFlipflopQn(ff) == GatedSRLatchQn(ff.slave)

\* ------------------------------------------------------------------------
\* JKFlipflop (flipflop.rs)
\* ------------------------------------------------------------------------

JKFlipflopNew == [sr_flipflop |-> SRFlipflopNew]

\* Plausible slip: the feedback crossed, j gated by q and k by qn.
JKFlipflopUpdateCrossed(ff, clk, j, k) ==
    LET s == and(<<j, SRFlipflopQ(ff.sr_flipflop)>>)
        r == and(<<k, SRFlipflopQn(ff.sr_flipflop)>>)
    IN  { [sr_flipflop |-> x] : x \in SRFlipflopUpdate(ff.sr_flipflop, clk, s, r) }

\* Plausible slip: j passed on as the set input without the feedback gate.
JKFlipflopSUngated(ff, j) == j

\* The set input update derives: s = and(j, qn).
JKFlipflopS(ff, j) == and(<<j, SRFlipflopQn(ff.sr_flipflop)>>)

\* The reset input update derives: r = and(k, q).
JKFlipflopR(ff, k) == and(<<k, SRFlipflopQ(ff.sr_flipflop)>>)

\* The set of states the flip-flop may be in after update(clk, j, k).
JKFlipflopUpdate(ff, clk, j, k) ==
    LET s == JKFlipflopS(ff, j)
        r == JKFlipflopR(ff, k)
    IN  { [sr_flipflop |-> x] : x \in SRFlipflopUpdate(ff.sr_flipflop, clk, s, r) }

JKFlipflopQ(ff) == SRFlipflopQ(ff.sr_flipflop)

JKFlipflopQn(ff) == SRFlipflopQn(ff.sr_flipflop)

\* ------------------------------------------------------------------------
\* RippleCounter<N> (counter.rs).  flipflops is a function on 0 .. N-1.
\* ------------------------------------------------------------------------

Width(flipflops) == Cardinality(DOMAIN flipflops)

\* The loop of update: stages i .. N-1 in increasing order, each clocked by
\* the already updated stage below it.
RECURSIVE RippleChain(_, _)
RippleChain(flipflops, i) ==
    IF i >= Width(flipflops) THEN flipflops
    ELSE RippleChain(
           [flipflops EXCEPT ![i] =
               DFlipflopUpdate(flipflops[i], DFlipflopQn(flipflops[i - 1]),
                               DFlipflopQn(flipflops[i]))],
           i + 1)

\* Plausible slip: every stage clocked by the true output of the stage below.
RippleCounterUpdateQ(flipflops, clk) ==
    LET RECURSIVE Chain(_, _)
        Chain(ffs, i) ==
            IF i >= Width(ffs) THEN ffs
            ELSE Chain([ffs EXCEPT ![i] =
                           DFlipflopUpdate(ffs[i], DFlipflopQ(ffs[i - 1]),
                                           DFlipflopQn(ffs[i]))],
                       i + 1)
    IN  Chain([flipflops EXCEPT ![0] =
                  DFlipflopUpdate(flipflops[0], clk, DFlipflopQn(flipflops[0]))],
              1)

\* Plausible slip: every stage clocked by the output the stage below had
\* before this call (all stages switching on the same snapshot).
RippleCounterUpdateStale(flipflops, clk) ==
    [i \in DOMAIN flipflops |->
        DFlipflopUpdate(flipflops[i],
                        IF i = 0 THEN clk ELSE DFlipflopQn(flipflops[i - 1]),
                        DFlipflopQn(flipflops[i]))]

\* Plausible slip: stage 0 fed its own q instead of qn, so it never toggles.
RippleCounterUpdateNoToggle(flipflops, clk) ==
    RippleChain(
        [flipflops EXCEPT ![0] =
            DFlipflopUpdate(flipflops[0], clk, DFlipflopQ(flipflops[0]))],
        1)

\* update(clk).  flipflops[0] is indexed unconditionally: with N = 0 the call
\* panics (see UpdatePanics) and this operator is not applied.
RippleCounterUpdate(flipflops, clk) ==
    RippleChain(
        [flipflops EXCEPT ![0] =
            DFlipflopUpdate(flipflops[0], clk, DFlipflopQn(flipflops[0]))],
        1)

\* update indexes flipflops[0], out of bounds when the array is empty.
UpdatePanics(flipflops) == Width(flipflops) = 0

RippleCounterInit(flipflops) == RippleCounterUpdate(flipflops, FALSE)

RippleCounterNew(n) == RippleCounterInit([i \in 0 .. n - 1 |-> DFlipflopNew])

\* Plausible slip: clear re-runs the init step without clearing the stages.
RippleCounterClearInitOnly(flipflops) == RippleCounterInit(flipflops)

RippleCounterClear(flipflops) ==
    RippleCounterInit([i \in DOMAIN flipflops |-> DFlipflopClear(flipflops[i])])

\* Bitwise or of two naturals (the |= of value).
RECURSIVE BitOr(_, _)
BitOr(a, b) ==
    IF a = 0 THEN b
    ELSE IF b = 0 THEN a
    ELSE (IF a % 2 = 1 \/ b % 2 = 1 THEN 1 ELSE 0) + 2 * BitOr(a \div 2, b \div 2)

\* The accumulation loop of value: val |= 1 << i for every stage with Q set.
\* val is a u64; the widths explored stay far below 64 bits.
RECURSIVE ValueAcc(_, _, _)
ValueAcc(flipflops, i, val) ==
    IF i >= Width(flipflops) THEN val
    ELSE ValueAcc(flipflops, i + 1,
                  BitOr(val, IF DFlipflopQ(flipflops[i]) THEN 2 ^ i ELSE 0))

\* The integer types T a caller may request, with the number of value bits
\* of each (T::MAX = 2^bits - 1).
Types == {"u8", "i8", "u16", "i16", "u64"}

TypeBits == [ty \in Types |->
               CASE ty = "u8"  -> 8
                 [] ty = "i8"  -> 7
                 [] ty = "u16" -> 16
                 [] ty = "i16" -> 15
                 [] ty = "u64" -> 64]

\* T::try_from(val) for a u64 val: Ok(val) when val <= T::MAX, Err otherwise.
TryFrom(ty, val) ==
    IF TypeBits[ty] >= 64 \/ val < 2 ^ TypeBits[ty]
    THEN [ok |-> TRUE, v |-> val]
    ELSE [ok |-> FALSE, v |-> 0]

\* Plausible slip: a narrowing cast (val as T) wrapped in Ok.
RippleCounterValueCast(flipflops, ty) ==
    LET val == ValueAcc(flipflops, 0, 0)
    IN  [ok |-> TRUE,
         v |-> IF TypeBits[ty] >= 64 THEN val ELSE val % (2 ^ TypeBits[ty])]

RippleCounterValue(flipflops, ty) == TryFrom(ty, ValueAcc(flipflops, 0, 0))

\* ------------------------------------------------------------------------
\* State.  One component is exercised per behaviour (dut); for each component
\* the state holds the component itself, its state before the last call and
\* the most recent calls made on it.
\* ------------------------------------------------------------------------

VARIABLES
    dut,          \* the component under exercise: "D", "SR", "JK" or "Counter"
    dff,          \* the DFlipflop
    dPrev,        \* the DFlipflop before the last call
    dHist,        \* the last two calls on the DFlipflop, most recent last
    dQuiet,       \* clear() was called and since then no update(false, true)
                  \* was followed at once by an update with clk = true
    srff,         \* the SRFlipflop
    srPrev,       \* the SRFlipflop before the last call
    srHist,       \* the last three calls on the SRFlipflop, most recent last
    srForbidden,  \* some update call so far had s = r = true
    jkff,         \* the JKFlipflop
    jkPrev,       \* the JKFlipflop before the last call
    jkHist,       \* the last two calls on the JKFlipflop, most recent last
    flipflops,    \* the RippleCounter's array of DFlipflop, indexed 0 .. N-1
    cPrev,        \* the array before the last call
    cHist,        \* the last two calls on the counter, most recent last
    cOrigin,      \* "new" or "clear": the call that last zeroed the counter
    cPure,        \* since cOrigin only complete clock pulses were applied
    cMid,         \* update(true) of a pulse was applied, update(false) is due
    cPulses,      \* complete pulses applied since cOrigin (while cPure)
    cResult,      \* the result of value::<T>() when it was the last call
    panicked      \* a call on the counter panicked

vars == <<dut, dff, dPrev, dHist, dQuiet, srff, srPrev, srHist, srForbidden,
          jkff, jkPrev, jkHist, flipflops, cPrev, cHist, cOrigin, cPure,
          cMid, cPulses, cResult, panicked>>

dVars == <<dff, dPrev, dHist, dQuiet>>

srVars == <<srff, srPrev, srHist, srForbidden>>

jkVars == <<jkff, jkPrev, jkHist>>

cVars == <<flipflops, cPrev, cHist, cOrigin, cPure, cMid, cPulses, cResult,
           panicked>>

Duts == {"D", "SR", "JK", "Counter"}

\* A recorded call: op is "new", "update" or "clear"; clk, a, b are the
\* arguments of an update (a = d, s or j; b = r or k), FALSE where unused.
Call(op, clk, a, b) == [op |-> op, clk |-> clk, a |-> a, b |-> b]

NewCall == Call("new", FALSE, FALSE, FALSE)

ClearCall == Call("clear", FALSE, FALSE, FALSE)

\* hist with call c appended, keeping the last n calls.
Push(hist, c, n) ==
    LET h == Append(hist, c)
    IN  IF Len(h) > n THEN SubSeq(h, Len(h) - n + 1, Len(h)) ELSE h

Last(hist) == hist[Len(hist)]

NoResult == [called |-> FALSE, ty |-> "u64", ok |-> FALSE, v |-> 0]

\* The state after construction: every component built by its new().
\* RippleCounter::<0>::new() runs init, whose update indexes flipflops[0].
Init ==
    /\ dut \in Duts
    /\ dff = DFlipflopNew
    /\ dPrev = DFlipflopNew
    /\ dHist = <<NewCall>>
    /\ dQuiet = FALSE
    /\ srff = SRFlipflopNew
    /\ srPrev = SRFlipflopNew
    /\ srHist = <<NewCall>>
    /\ srForbidden = FALSE
    /\ jkff = JKFlipflopNew
    /\ jkPrev = JKFlipflopNew
    /\ jkHist = <<NewCall>>
    /\ \E n \in (IF dut = "Counter" THEN 0 .. MaxN ELSE {1}) :
         /\ panicked = UpdatePanics([i \in 0 .. n - 1 |-> DFlipflopNew])
         /\ flipflops = IF panicked THEN [i \in 0 .. n - 1 |-> DFlipflopNew]
                                     ELSE RippleCounterNew(n)
         /\ cPrev = flipflops
    /\ cHist = <<NewCall>>
    /\ cOrigin = "new"
    /\ cPure = TRUE
    /\ cMid = FALSE
    /\ cPulses = 0
    /\ cResult = NoResult

\* ------------------------------------------------------------------------
\* Calls on the DFlipflop
\* ------------------------------------------------------------------------

DUpdate(clk, d) ==
    /\ dut = "D"
    /\ dff' = DFlipflopUpdate(dff, clk, d)
    /\ dPrev' = dff
    /\ dHist' = Push(dHist, Call("update", clk, d, FALSE), 2)
    /\ dQuiet' = (dQuiet /\ ~(clk /\ Last(dHist) = Call("update", FALSE, TRUE, FALSE)))
    /\ UNCHANGED <<dut, srVars, jkVars, cVars>>

DClear ==
    /\ dut = "D"
    /\ dff' = DFlipflopClear(dff)
    /\ dPrev' = dff
    /\ dHist' = Push(dHist, ClearCall, 2)
    /\ dQuiet' = TRUE
    /\ UNCHANGED <<dut, srVars, jkVars, cVars>>

\* ------------------------------------------------------------------------
\* Calls on the SRFlipflop and the JKFlipflop
\* ------------------------------------------------------------------------

SRUpdate(clk, s, r) ==
    /\ dut = "SR"
    /\ srff' \in SRFlipflopUpdate(srff, clk, s, r)
    /\ srPrev' = srff
    /\ srHist' = Push(srHist, Call("update", clk, s, r), 3)
    /\ srForbidden' = (srForbidden \/ (s /\ r))
    /\ UNCHANGED <<dut, dVars, jkVars, cVars>>

JKUpdate(clk, j, k) ==
    /\ dut = "JK"
    /\ jkff' \in JKFlipflopUpdate(jkff, clk, j, k)
    /\ jkPrev' = jkff
    /\ jkHist' = Push(jkHist, Call("update", clk, j, k), 2)
    /\ UNCHANGED <<dut, dVars, srVars, cVars>>

\* ------------------------------------------------------------------------
\* Calls on the RippleCounter
\* ------------------------------------------------------------------------

CUpdate(clk) ==
    /\ dut = "Counter"
    /\ ~panicked
    /\ flipflops' = RippleCounterUpdate(flipflops, clk)
    /\ cPrev' = flipflops
    /\ cHist' = Push(cHist, Call("update", clk, FALSE, FALSE), 2)
    /\ IF cPure /\ clk /\ ~cMid /\ cPulses < MaxPulses
       THEN /\ cMid' = TRUE
            /\ UNCHANGED <<cPure, cPulses>>
       ELSE IF cPure /\ ~clk /\ cMid
       THEN /\ cMid' = FALSE
            /\ cPulses' = cPulses + 1
            /\ UNCHANGED cPure
       ELSE /\ cPure' = FALSE
            /\ cMid' = FALSE
            /\ cPulses' = 0
    /\ cResult' = NoResult
    /\ UNCHANGED <<dut, dVars, srVars, jkVars, cOrigin, panicked>>

CClear ==
    /\ dut = "Counter"
    /\ ~panicked
    /\ flipflops' = RippleCounterClear(flipflops)
    /\ cPrev' = flipflops
    /\ cHist' = Push(cHist, ClearCall, 2)
    /\ cOrigin' = "clear"
    /\ cPure' = TRUE
    /\ cMid' = FALSE
    /\ cPulses' = 0
    /\ cResult' = NoResult
    /\ UNCHANGED <<dut, dVars, srVars, jkVars, panicked>>

\* value::<T>() takes &self and has no precondition: it may follow any call,
\* another value() included, and changes nothing but the result it returns.
CValue(ty) ==
    /\ dut = "Counter"
    /\ ~panicked
    /\ LET res == RippleCounterValue(flipflops, ty)
       IN  cResult' = [called |-> TRUE, ty |-> ty, ok |-> res.ok, v |-> res.v]
    /\ UNCHANGED <<dut, dVars, srVars, jkVars, flipflops, cPrev, cHist,
                   cOrigin, cPure, cMid, cPulses, panicked>>

Next ==
    \/ \E clk \in BOOLEAN, d \in BOOLEAN : DUpdate(clk, d)
    \/ DClear
    \/ \E clk \in BOOLEAN, s \in BOOLEAN, r \in BOOLEAN : SRUpdate(clk, s, r)
    \/ \E clk \in BOOLEAN, j \in BOOLEAN, k \in BOOLEAN : JKUpdate(clk, j, k)
    \/ \E clk \in BOOLEAN : CUpdate(clk)
    \/ CClear
    \/ \E ty \in Types : CValue(ty)

Spec == Init /\ [][Next]_vars

\* ------------------------------------------------------------------------
\* Properties
\* ------------------------------------------------------------------------

Upd(clk, a, b) == Call("update", clk, a, b)

\* Sum over the stages of Q_i * 2^i.
RECURSIVE SumQ(_, _)
SumQ(ffs, i) ==
    IF i >= Width(ffs) THEN 0
    ELSE (IF DFlipflopQ(ffs[i]) THEN 2 ^ i ELSE 0) + SumQ(ffs, i + 1)

\* C1: a counter fresh from new() reads t mod 2^N after t complete clock
\* pulses (update(true) then update(false)), as an Ok value, wrap-around
\* included.
CounterModulo ==
    (dut = "Counter" /\ ~panicked /\ cOrigin = "new" /\ cPure /\ ~cMid)
        => RippleCounterValue(flipflops, "u64")
             = [ok |-> TRUE, v |-> cPulses % (2 ^ Width(flipflops))]

\* C1 witness: a 3-bit counter after 11 pulses, wrapped once, reads 3.
CounterModuloWitness ==
    /\ dut = "Counter" /\ cOrigin = "new" /\ cPure /\ ~cMid
    /\ Width(flipflops) = 3
    /\ cPulses = 11
    /\ RippleCounterValue(flipflops, "u64").v = 3

\* C2: right after clear(), whatever the state it was called in, every
\* stage's Q is false and value() is 0.
CounterClearZero ==
    (dut = "Counter" /\ Last(cHist).op = "clear")
        => /\ \A i \in DOMAIN flipflops : ~DFlipflopQ(flipflops[i])
           /\ RippleCounterValue(flipflops, "u64") = [ok |-> TRUE, v |-> 0]

\* C2 witness: clear() called while the external clock is high, right after
\* an update(true), on a counter holding a non-zero value.
CounterClearZeroWitness ==
    /\ dut = "Counter"
    /\ Len(cHist) = 2
    /\ cHist[1] = Upd(TRUE, FALSE, FALSE)
    /\ cHist[2].op = "clear"
    /\ Width(cPrev) >= 2
    /\ SumQ(cPrev, 0) > 1
    /\ SumQ(flipflops, 0) = 0

\* C3: an update call changes the DFlipflop's Q only if it has clk = true
\* and the call right before it was an update with clk = false.
DEdgeOnly ==
    (dut = "D" /\ Last(dHist).op = "update"
       /\ DFlipflopQ(dff) # DFlipflopQ(dPrev))
        => /\ Last(dHist).clk
           /\ Len(dHist) = 2
           /\ dHist[1].op = "update"
           /\ ~dHist[1].clk

\* C3 witness: an update through which Q changed.
DEdgeOnlyWitness ==
    /\ dut = "D"
    /\ Last(dHist).op = "update"
    /\ DFlipflopQ(dff) # DFlipflopQ(dPrev)

\* C4: when update(false, d0) is followed at once by update(true, d1), Q
\* equals d0 afterwards, whatever d1 is.
DEdgeTakesD ==
    (dut = "D" /\ Len(dHist) = 2
       /\ dHist[1].op = "update" /\ ~dHist[1].clk
       /\ dHist[2].op = "update" /\ dHist[2].clk)
        => DFlipflopQ(dff) = dHist[1].a

\* C4 witness: a rising edge with d0 = true and d1 = false leaving Q true.
DEdgeTakesDWitness ==
    /\ dut = "D"
    /\ dHist = <<Upd(FALSE, TRUE, FALSE), Upd(TRUE, FALSE, FALSE)>>
    /\ ~DFlipflopQ(dPrev)
    /\ DFlipflopQ(dff)

\* C5: with j = k = true, Q flips on the update(true, true, true) that
\* follows an update(false, true, true), and the update(false, true, true)
\* itself leaves Q alone, so Q alternates from one edge to the next.
JKToggle ==
    /\ (dut = "JK" /\ jkHist = <<Upd(FALSE, TRUE, TRUE), Upd(TRUE, TRUE, TRUE)>>)
         => JKFlipflopQ(jkff) # JKFlipflopQ(jkPrev)
    /\ (dut = "JK" /\ Last(jkHist) = Upd(FALSE, TRUE, TRUE))
         => JKFlipflopQ(jkff) = JKFlipflopQ(jkPrev)

\* C5 witness: a toggle edge that took Q from true back to false.
JKToggleWitness ==
    /\ dut = "JK"
    /\ jkHist = <<Upd(FALSE, TRUE, TRUE), Upd(TRUE, TRUE, TRUE)>>
    /\ JKFlipflopQ(jkPrev)
    /\ ~JKFlipflopQ(jkff)

\* C6 (as claimed): a rising edge presented with j = k = false, that is
\* update(false, false, false) followed at once by update(true, false, false),
\* leaves Q as it was, from any reachable state.
JKHoldOnEdge ==
    (dut = "JK" /\ jkHist = <<Upd(FALSE, FALSE, FALSE), Upd(TRUE, FALSE, FALSE)>>)
        => JKFlipflopQ(jkff) = JKFlipflopQ(jkPrev)

\* C7 (as claimed): a rising edge presented with j = true, k = false ends with
\* Q true, and one presented with j = false, k = true ends with Q false, from
\* any reachable state.
JKSetResetOnEdge ==
    /\ (dut = "JK" /\ jkHist = <<Upd(FALSE, TRUE, FALSE), Upd(TRUE, TRUE, FALSE)>>)
         => JKFlipflopQ(jkff)
    /\ (dut = "JK" /\ jkHist = <<Upd(FALSE, FALSE, TRUE), Upd(TRUE, FALSE, TRUE)>>)
         => ~JKFlipflopQ(jkff)

\* C8: for an SRFlipflop never given s = r = true, a rising edge with s held
\* true and r false ends with Q true, an update with clk = false after it
\* leaves Q true, and a rising edge with r held true and s false ends with
\* Q false.
SRSetHoldReset ==
    (dut = "SR" /\ ~srForbidden) =>
        /\ (Len(srHist) >= 2
              /\ srHist[Len(srHist) - 1] = Upd(FALSE, TRUE, FALSE)
              /\ Last(srHist) = Upd(TRUE, TRUE, FALSE))
             => SRFlipflopQ(srff)
        /\ (Len(srHist) = 3
              /\ srHist[1] = Upd(FALSE, TRUE, FALSE)
              /\ srHist[2] = Upd(TRUE, TRUE, FALSE)
              /\ srHist[3].op = "update" /\ ~srHist[3].clk)
             => SRFlipflopQ(srff)
        /\ (Len(srHist) >= 2
              /\ srHist[Len(srHist) - 1] = Upd(FALSE, FALSE, TRUE)
              /\ Last(srHist) = Upd(TRUE, FALSE, TRUE))
             => ~SRFlipflopQ(srff)

\* C8 witness: a reset edge that took Q from true to false.
SRSetHoldResetWitness ==
    /\ dut = "SR" /\ ~srForbidden
    /\ Len(srHist) = 3
    /\ srHist[2] = Upd(FALSE, FALSE, TRUE)
    /\ srHist[3] = Upd(TRUE, FALSE, TRUE)
    /\ SRFlipflopQ(srPrev)
    /\ ~SRFlipflopQ(srff)

\* C9: qn() is the complement of q() for the three flip-flops and for the
\* master and slave latch inside each, after construction and after every
\* call, provided the SRFlipflop was never given s = r = true.
ComplementInvariant ==
    /\ DFlipflopQn(dff) = ~DFlipflopQ(dff)
    /\ \A l \in {dff.master, dff.slave} : DLatchQn(l) = ~DLatchQ(l)
    /\ ~srForbidden =>
         /\ SRFlipflopQn(srff) = ~SRFlipflopQ(srff)
         /\ \A l \in {srff.master, srff.slave} :
              GatedSRLatchQn(l) = ~GatedSRLatchQ(l)
    /\ JKFlipflopQn(jkff) = ~JKFlipflopQ(jkff)
    /\ \A l \in {jkff.sr_flipflop.master, jkff.sr_flipflop.slave} :
         GatedSRLatchQn(l) = ~GatedSRLatchQ(l)

\* C9 witness: a DFlipflop whose master and slave hold different bits, and
\* which was cleared two calls ago.
ComplementInvariantWitness ==
    /\ dut = "D"
    /\ Len(dHist) = 2
    /\ dHist[1].op = "clear"
    /\ DLatchQ(dff.master) # DLatchQ(dff.slave)
    /\ DFlipflopQn(dff) = ~DFlipflopQ(dff)

\* T::MAX >= sum, for a sum below 2^64.
Representable(ty, sum) == TypeBits[ty] >= 64 \/ sum <= 2 ^ TypeBits[ty] - 1

\* C10: value::<T>() returns Ok of the sum of Q_i * 2^i when T can represent
\* that sum and a conversion error otherwise, never another value.
ValueConversion ==
    cResult.called =>
        LET sum == SumQ(flipflops, 0)
        IN  IF Representable(cResult.ty, sum)
            THEN cResult.ok /\ cResult.v = sum
            ELSE ~cResult.ok

\* C10 witness: a 9-bit counter with bit 8 set read as a u8: an error.
ValueConversionWitness ==
    /\ cResult.called
    /\ cResult.ty = "u8"
    /\ Width(flipflops) = 9
    /\ DFlipflopQ(flipflops[8])
    /\ ~cResult.ok

\* C11 (as claimed): the JKFlipflop and the SRFlipflop offer a clear() call,
\* possible in every state, after which Q is false and Qn is true.
JKClearOffered ==
    /\ dut = "JK" =>
         ENABLED (/\ Next
                  /\ Last(jkHist').op = "clear"
                  /\ ~JKFlipflopQ(jkff') /\ JKFlipflopQn(jkff'))
    /\ dut = "SR" =>
         ENABLED (/\ Next
                  /\ Last(srHist').op = "clear"
                  /\ ~SRFlipflopQ(srff') /\ SRFlipflopQn(srff'))

\* C12: in every JKFlipflop update call the derived inputs s = j AND Qn and
\* r = k AND Q handed to the SRFlipflop are not both true, and neither are the
\* set and reset inputs (master Q, master Qn) the SRFlipflop hands its slave.
JKNoForbiddenInputs ==
    (dut = "JK" /\ Last(jkHist).op = "update") =>
        /\ ~(JKFlipflopS(jkPrev, Last(jkHist).a) /\ JKFlipflopR(jkPrev, Last(jkHist).b))
        /\ ~(GatedSRLatchQ(jkff.sr_flipflop.master)
               /\ GatedSRLatchQn(jkff.sr_flipflop.master))

\* C12 witness: an update(false, true, true) call on a set flip-flop, where
\* only the feedback keeps s false.
JKNoForbiddenInputsWitness ==
    /\ dut = "JK"
    /\ Last(jkHist) = Upd(FALSE, TRUE, TRUE)
    /\ JKFlipflopQ(jkPrev)
    /\ ~JKFlipflopS(jkPrev, TRUE)
    /\ JKFlipflopR(jkPrev, TRUE)

\* The external clock of the call before the last one; the init step of
\* new() and clear() is an update(false).
PrevClk == IF Len(cHist) = 2 THEN cHist[1].clk ELSE FALSE

\* C13: within one RippleCounter update call, stage i >= 1 toggles exactly
\* when stage i-1 went from true to false in that call, and stage 0 toggles
\* exactly when the call has clk = true and the call before it (or the init
\* step) had clk = false.
RippleToggle ==
    (dut = "Counter" /\ ~panicked /\ Last(cHist).op = "update") =>
        /\ (DFlipflopQ(flipflops[0]) # DFlipflopQ(cPrev[0]))
             <=> (Last(cHist).clk /\ ~PrevClk)
        /\ \A i \in DOMAIN flipflops \ {0} :
             (DFlipflopQ(flipflops[i]) # DFlipflopQ(cPrev[i]))
               <=> (DFlipflopQ(cPrev[i - 1]) /\ ~DFlipflopQ(flipflops[i - 1]))

\* C13 witness: one update(true) call in which the carry ripples through
\* stages 0, 1 and 2 of a counter at 3, leaving 4.
RippleToggleWitness ==
    /\ dut = "Counter"
    /\ Last(cHist) = Upd(TRUE, FALSE, FALSE)
    /\ Width(flipflops) >= 3
    /\ SumQ(cPrev, 0) = 3
    /\ SumQ(flipflops, 0) = 4

\* C14: value() changes only in an update(true) call that follows a call (or
\* init step) with clk = false, and then becomes (old value + 1) mod 2^N;
\* every other update call leaves it unchanged.
ValueStep ==
    (dut = "Counter" /\ ~panicked /\ Last(cHist).op = "update") =>
        LET old == ValueAcc(cPrev, 0, 0)
            new == ValueAcc(flipflops, 0, 0)
        IN  IF Last(cHist).clk /\ ~PrevClk
            THEN new = (old + 1) % (2 ^ Width(flipflops))
            ELSE new = old

\* C14 witness: a rising edge on a 2-bit counter at 3, which wraps to 0.
ValueStepWitness ==
    /\ dut = "Counter"
    /\ cHist = <<Upd(FALSE, FALSE, FALSE), Upd(TRUE, FALSE, FALSE)>>
    /\ Width(flipflops) = 2
    /\ ValueAcc(cPrev, 0, 0) = 3
    /\ ValueAcc(flipflops, 0, 0) = 0

\* C15: clear() leaves the counter in exactly the state new() produces,
\* every master and slave latch of every stage equal, so that t complete
\* pulses after clear() read t mod 2^N.
ClearEqualsNew ==
    /\ (dut = "Counter" /\ ~panicked /\ Last(cHist).op = "clear")
         => flipflops = RippleCounterNew(Width(flipflops))
    /\ (dut = "Counter" /\ ~panicked /\ cOrigin = "clear" /\ cPure /\ ~cMid)
         => RippleCounterValue(flipflops, "u64")
              = [ok |-> TRUE, v |-> cPulses % (2 ^ Width(flipflops))]

\* C15 witness: clear() called on a 3-bit counter holding 6 with the clock
\* low, where masters and slaves differ from their state after new().
ClearEqualsNewWitness ==
    /\ dut = "Counter"
    /\ cHist = <<Upd(FALSE, FALSE, FALSE), ClearCall>>
    /\ Width(flipflops) = 3
    /\ SumQ(cPrev, 0) = 6
    /\ cPrev # RippleCounterNew(3)
    /\ flipflops = RippleCounterNew(3)

\* C16: in every DFlipflop and SRFlipflop update call exactly one latch is
\* enabled.  With clk = false the master takes the inputs and the slave (Q)
\* stays as it was; with clk = true the slave takes the master's outputs and
\* the master stays as it was.
MasterSlaveFrame ==
    /\ (dut = "D" /\ Last(dHist).op = "update") =>
         IF Last(dHist).clk
         THEN /\ dff.master = dPrev.master
              /\ DLatchQ(dff.slave) = DLatchQ(dff.master)
         ELSE /\ dff.slave = dPrev.slave
              /\ DLatchQ(dff.master) = Last(dHist).a
    /\ (dut = "SR" /\ Last(srHist).op = "update") =>
         IF Last(srHist).clk
         THEN /\ srff.master = srPrev.master
              /\ ~srForbidden =>
                   GatedSRLatchQ(srff.slave) = GatedSRLatchQ(srff.master)
         ELSE /\ srff.slave = srPrev.slave
              /\ (Last(srHist).a /\ ~Last(srHist).b)
                   => GatedSRLatchQ(srff.master)
              /\ (Last(srHist).b /\ ~Last(srHist).a)
                   => ~GatedSRLatchQ(srff.master)

\* C16 witness: an SRFlipflop update(true, false, true) that moved the slave
\* to set while the reset presented at its inputs left the master alone.
MasterSlaveFrameWitness ==
    /\ dut = "SR" /\ ~srForbidden
    /\ Last(srHist) = Upd(TRUE, FALSE, TRUE)
    /\ srff.master = srPrev.master
    /\ ~SRFlipflopQ(srPrev)
    /\ SRFlipflopQ(srff)

\* C17: for an SRFlipflop never given s = r = true, an update call changes Q
\* only if it has clk = true and the call right before it was an update with
\* clk = false.
SREdgeOnly ==
    (dut = "SR" /\ ~srForbidden /\ Last(srHist).op = "update"
       /\ SRFlipflopQ(srff) # SRFlipflopQ(srPrev))
        => /\ Last(srHist).clk
           /\ Len(srHist) >= 2
           /\ srHist[Len(srHist) - 1].op = "update"
           /\ ~srHist[Len(srHist) - 1].clk

\* C17 witness: an update through which the SRFlipflop's Q fell.
SREdgeOnlyWitness ==
    /\ dut = "SR" /\ ~srForbidden
    /\ Last(srHist).op = "update"
    /\ SRFlipflopQ(srPrev)
    /\ ~SRFlipflopQ(srff)

\* C18: after DFlipflop clear(), whatever the state and the last clock, Q is
\* false and Qn true, and they stay so through every following update until
\* an update(false, true) is followed at once by an update with clk = true;
\* an update(true, d) right after clear() leaves Q false.
DClearQuiet ==
    (dut = "D" /\ dQuiet) => (~DFlipflopQ(dff) /\ DFlipflopQn(dff))

\* C18 witness: update(true, true) right after a clear() leaving Q false.
DClearQuietWitness ==
    /\ dut = "D" /\ dQuiet
    /\ dHist = <<ClearCall, Upd(TRUE, TRUE, FALSE)>>
    /\ ~DFlipflopQ(dff)

\* C19 (as claimed): for every width N >= 0 the calls new(), update(clk) and
\* clear() index the flip-flops only inside 0 .. N-1 and so never abort.
CounterNeverPanics ==
    dut = "Counter" => ~panicked

\* The clock input of stage i: the last external clk for stage 0 (false after
\* the init step of new() and clear()), Qn of the stage below otherwise.
StageClk(i) ==
    IF i = 0 THEN Last(cHist).clk ELSE DFlipflopQn(flipflops[i - 1])

\* C20: after new() and after every update or clear call, a stage whose
\* clock input is false holds the complement of its Q in its master latch
\* (the toggle is armed), and a stage whose clock input is true holds the
\* same bit in master and slave.
MasterArmed ==
    (dut = "Counter" /\ ~panicked) =>
        \A i \in DOMAIN flipflops :
            IF StageClk(i)
            THEN DLatchQ(flipflops[i].master) = DFlipflopQ(flipflops[i])
            ELSE DLatchQ(flipflops[i].master) = ~DFlipflopQ(flipflops[i])

\* C20 witness: a 3-bit counter at 5 with the external clock high after an
\* update: stages 0 and 2 have their clock high, stage 1 is armed.
MasterArmedWitness ==
    /\ dut = "Counter"
    /\ Last(cHist) = Upd(TRUE, FALSE, FALSE)
    /\ Width(flipflops) = 3
    /\ SumQ(flipflops, 0) = 5
    /\ StageClk(0) /\ ~StageClk(1) /\ StageClk(2)
    /\ DLatchQ(flipflops[1].master)

====
